---- MODULE Spec2Model ----
(***************************************************************************)
(* A model of story_processor.py: StoryProcessor.run and the functions it   *)
(* drives (fetch_stories, process_story, download_audio, trim_audio), with  *)
(* the disk (catalog cache file, audio directory, transcript directory,     *)
(* output table) as state that survives from one run to the next.           *)
(*                                                                          *)
(* Strings the code inspects character by character (titles, audio          *)
(* references, the community flag) are sequences of one-character strings.  *)
(* An absent or empty JSON field is the empty sequence: both are falsy for  *)
(* `story.get(k)` and for `or`.                                             *)
(***************************************************************************)
EXTENDS Integers, Sequences, FiniteSets, TLC

\* ------------------------------------------------------------------ bounds

\* Longest catalog the remote endpoint answers with.
MaxItems == 2

\* Number of times the program is started, one after the other.
MaxRuns == 2

\* ------------------------------------------------------- program constants

\* StoryProcessorConfig.trim_seconds
trim_seconds == 20

\* the cut of sanitize_filename, [:150]
MaxNameLen == 150

\* process_story: an extension longer than this becomes "mp3"
MaxExtLen == 5

\* StoryProcessorConfig.base_audio_url
base_audio_url ==
  <<"h","t","t","p","s",":","/","/","i","d","s","p","-","d","e","v",".",
    "t","e","a","c","h","e","r","-","n","e","t","w","o","r","k",".","i","n","/">>

\* ------------------------------------------------------------ string tools
\* A string is a sequence of one-character strings.  Each operator takes its
\* argument through  x \in {arg}  so that the argument is evaluated once, to a
\* value, however often the body reads it.

\* the element of a one-element set
Only(S) == CHOOSE r \in S : TRUE

Min(a, b) == IF a < b THEN a ELSE b

\* the least and the greatest element of a non-empty set of numbers
Least(S) == CHOOSE i \in S : \A j \in S : i <= j
Greatest(S) == CHOOSE i \in S : \A j \in S : j <= i

\* s[:n]
Take(str, n) == Only({SubSeq(s, 1, Min(n, Len(s))) : s \in {str}})

\* the positions of s that hold a character outside chars
Outside(s, chars) == {i \in 1..Len(s) : s[i] \notin chars}

\* s.lstrip(chars)
LStrip(str, chars) ==
  Only({IF k = {} THEN <<>> ELSE SubSeq(s, Least(k), Len(s)) :
          <<s, k>> \in {<<x, Outside(x, chars)>> : x \in {str}}})

\* s.rstrip(chars)
RStrip(str, chars) ==
  Only({IF k = {} THEN <<>> ELSE SubSeq(s, 1, Greatest(k)) :
          <<s, k>> \in {<<x, Outside(x, chars)>> : x \in {str}}})

\* s.strip(chars)
Strip(s, chars) == RStrip(LStrip(s, chars), chars)

\* the characters \s matches and str.strip() removes, as far as the model's
\* alphabet has them
Whitespace == {" ", "\t"}

\* the character class of the first re.sub of sanitize_filename
IllegalChars == {"\\", "/", "*", "?", ":", "\"", "<", ">", "|"}

\* re.sub(r'[\\/*?:"<>|]', "_", name)
ReplaceIllegal(name) ==
  Only({[i \in 1..Len(s) |-> IF s[i] \in IllegalChars THEN "_" ELSE s[i]] :
          s \in {name}})

\* re.sub(r"\s+", "_", s): every maximal run of whitespace becomes one "_",
\* that is, its first character becomes "_" and the others are dropped
KeptChar(m) == m.keep
MarkRuns(s) ==
  [i \in 1..Len(s) |->
     [c |-> IF s[i] \in Whitespace THEN "_" ELSE s[i],
      keep |-> s[i] \notin Whitespace \/ i = 1 \/ s[i - 1] \notin Whitespace]]
CollapseWhitespace(str) ==
  Only({[i \in 1..Len(kept) |-> kept[i].c] :
          kept \in {SelectSeq(MarkRuns(s), KeptChar) : s \in {str}}})

sanitize_filename(name) ==
  Take(Strip(CollapseWhitespace(ReplaceIllegal(name)), {"_"}), MaxNameLen)

\* the positions of ch in s
Positions(s, ch) == {i \in 1..Len(s) : s[i] = ch}

\* the index of the last occurrence of ch in s, 0 when there is none
LastIndexOf(str, ch) ==
  Only({IF at = {} THEN 0 ELSE Greatest(at) :
          at \in {Positions(s, ch) : s \in {str}}})

\* the index of the first occurrence of ch in s, 0 when there is none
FirstIndexOf(str, ch) ==
  Only({IF at = {} THEN 0 ELSE Least(at) :
          at \in {Positions(s, ch) : s \in {str}}})

\* s.split(ch)[0]
SplitFirst(str, ch) ==
  Only({IF i = 0 THEN s ELSE SubSeq(s, 1, i - 1) :
          <<s, i>> \in {<<x, FirstIndexOf(x, ch)>> : x \in {str}}})

\* s.split(ch)[-1]
SplitLast(str, ch) ==
  Only({SubSeq(s, i + 1, Len(s)) :
          <<s, i>> \in {<<x, LastIndexOf(x, ch)>> : x \in {str}}})

\* pathlib's PurePath.suffix of a file name: from the last dot on, unless the
\* dot is the first or the last character
PathSuffix(name) ==
  Only({IF 1 < i /\ i < Len(s) THEN SubSeq(s, i, Len(s)) ELSE <<>> :
          <<s, i>> \in {<<x, LastIndexOf(x, ".")>> : x \in {name}}})

\* pathlib's PurePath.stem
PathStem(name) ==
  Only({IF 1 < i /\ i < Len(s) THEN SubSeq(s, 1, i - 1) ELSE s :
          <<s, i>> \in {<<x, LastIndexOf(x, ".")>> : x \in {name}}})

\* f"{nid}" of a one-digit nid
DigitChars == <<"0", "1", "2", "3", "4", "5", "6", "7", "8", "9">>
NidStr(nid) == <<DigitChars[nid + 1]>>

\* ------------------------------------------------------------ catalog items

\* JSON values of the field_is_it_by_community field: absent (None), a
\* string, or a number
FlagNone == [kind |-> "none", s |-> <<>>, n |-> 0]
FlagStr(s) == [kind |-> "str", s |-> s, n |-> 0]
FlagInt(n) == [kind |-> "int", s |-> <<>>, n |-> n]

\* Python's str(v) of such a value
PyStr(v) ==
  CASE v.kind = "none" -> <<"N", "o", "n", "e">>
    [] v.kind = "str" -> v.s
    [] v.kind = "int" -> NidStr(v.n)

\* One catalog object (a dict of the JSON array the endpoint returns).
Story(nid, title, story_title, audio_story_url, audio, audio_url, flag) ==
  [nid |-> nid, title |-> title, story_title |-> story_title,
   audio_story_url |-> audio_story_url, audio |-> audio,
   audio_url |-> audio_url, duration |-> 60 * nid,
   field_is_it_by_community |-> flag]

\* The catalog objects the model draws catalogs from: a plain story, an
\* excluded one, one whose title sanitizes to the first one's name, one with
\* no audio reference and no title, one whose flag is " 1", and one whose
\* flag is the number 1.
SunStory ==
  Story(1, <<"S", " ", "n">>, <<>>, <<"/", "a", ".", "m", "p", "3">>, <<>>, <<>>,
        FlagStr(<<"0">>))
MoonStory ==
  Story(2, <<>>, <<"M">>, <<>>, <<"/", "b", ".", "m", "p", "3">>, <<>>,
        FlagStr(<<"1">>))
SonStory ==
  Story(3, <<"S", "?", "n">>, <<>>, <<>>, <<>>,
        <<"c", ".", "m", "p", "e", "g", "4", "a", "?", "v">>, FlagNone)
MuteStory ==
  Story(4, <<>>, <<>>, <<>>, <<>>, <<>>, FlagStr(<<"0">>))
PadStory ==
  Story(5, <<"P">>, <<>>, <<"d", ".", "w", "a", "v">>, <<>>, <<>>,
        FlagStr(<<" ", "1">>))
NumStory ==
  Story(6, <<"N">>, <<>>, <<>>, <<"e", ".", "m", "p", "3">>, <<>>, FlagInt(1))

Stories == {SunStory, MoonStory, SonStory, MuteStory, PadStory, NumStory}

\* A story whose title sanitizes to the name of SunStory's and whose audio
\* has another extension.
WavStory ==
  Story(7, <<"S", "\t", "n">>, <<>>, <<>>, <<"f", ".", "w", "a", "v">>, <<>>,
        FlagStr(<<"0">>))

\* the catalogs that list WavStory
WavCatalogs == {<<SunStory, WavStory>>}

\* the answers of the remote endpoint: catalogs of at most MaxItems objects
\* of Stories, the same object possibly listed twice, and the WavCatalogs
Catalogs == UNION {[1..n -> Stories] : n \in 0..MaxItems} \cup WavCatalogs

\* the filter without its strip(): the flag compared as it is
is_community_unstripped(s) == PyStr(s.field_is_it_by_community) = <<"1">>

\* run() without its filter: no story counts as community-submitted
is_community_never(s) == FALSE

\* run(): str(s.get("field_is_it_by_community")).strip() == "1"
is_community(s) == Strip(PyStr(s.field_is_it_by_community), Whitespace) = <<"1">>

\* process_story: story.get("title") or story.get("story_title")
\*                or f"(Untitled {nid})"
TitleOf(story) ==
  IF story.title # <<>> THEN story.title
  ELSE IF story.story_title # <<>> THEN story.story_title
  ELSE <<"(", "U", "n", "t", "i", "t", "l", "e", "d", " ">>
         \o NidStr(story.nid) \o <<")">>

\* process_story: the first non-empty of audio_story_url, audio, audio_url;
\* the empty sequence when there is none
RelativeAudio(story) ==
  IF story.audio_story_url # <<>> THEN story.audio_story_url
  ELSE IF story.audio # <<>> THEN story.audio
  ELSE story.audio_url

\* process_story: base_audio_url + relative_audio.lstrip("/")
UrlOf(relative_audio) == base_audio_url \o LStrip(relative_audio, {"/"})

\* process_story: url.split("?")[0].split(".")[-1], "mp3" when longer than 5
ExtOf(url) ==
  Only({IF Len(ext) > MaxExtLen THEN <<"m", "p", "3">> ELSE ext :
          ext \in {SplitLast(SplitFirst(url, "?"), ".")}})

\* a file name that also carries the key of the item
FilenameOf_keyed(story) ==
  sanitize_filename(TitleOf(story)) \o <<"_">> \o NidStr(story.nid) \o <<".">>
    \o ExtOf(UrlOf(RelativeAudio(story)))

\* process_story: f"{safe_name}.{ext}"
FilenameOf(story) ==
  sanitize_filename(TitleOf(story)) \o <<".">> \o ExtOf(UrlOf(RelativeAudio(story)))

\* trim_audio: audio_path.with_name(stem + "_trimmed" + suffix)
TrimmedName(name) ==
  Only({PathStem(s) \o <<"_", "t", "r", "i", "m", "m", "e", "d">> \o PathSuffix(s) :
          s \in {name}})

\* ------------------------------------------------- external collaborators

\* Length in milliseconds of the audio the server holds under a URL
\* (len(AudioSegment) of the complete file): longer than the trim for a.mp3,
\* exactly the trim for c..., shorter for the others.
AudioDuration(url) ==
  LET rel == SubSeq(url, Len(base_audio_url) + 1, Len(url))
  IN CASE Head(rel) = "a" -> 45000
       [] Head(rel) = "c" -> 20000
       [] OTHER -> 15000

\* What an interrupted stream leaves behind: a prefix of the audio.
PartialDuration(url) == AudioDuration(url) \div 2

\* WhisperNLP.transcribe(audio_path)["text"]: the text is a function of the
\* audio handed over, named here by where the audio came from.
NoText == [url |-> <<>>, ms |-> 0]
TranscribeText(file) == [url |-> file.url, ms |-> file.ms]

\* WhisperNLP.analyze(text): an AnalysisResult.  The histogram has an entry
\* only for the word lengths that occur in the text.
NoAnalysis ==
  [word_count |-> 0, sentence_count |-> 0, avg_words_per_sentence |-> 0,
   pos_counts |-> [nouns |-> 0, verbs |-> 0, adjectives |-> 0],
   word_length_distribution |-> <<>>]
AnalyzeText(text) ==
  LET secs == text.ms \div 1000
  IN [word_count |-> 2 * secs, sentence_count |-> secs \div 5 + 1,
      avg_words_per_sentence |-> (2 * secs) \div (secs \div 5 + 1),
      pos_counts |-> [nouns |-> secs \div 2, verbs |-> secs \div 3,
                      adjectives |-> secs \div 4],
      word_length_distribution |->
        IF secs > 20 THEN (3 :> secs) @@ (5 :> 2) @@ (12 :> 1)
        ELSE (4 :> secs) @@ (10 :> 1)]

\* ResultWriter.write_row(row): the output table is append-only.
WriteRow(table, row) == Append(table, row)

\* ------------------------------------------------------------------- state

VARIABLES
  run,            \* how many times the program has been started
  pc,             \* where the running program is
  idx,            \* run(): position of `for s in stories`
  stories,        \* run(): the list fetch_stories returned
  loc,            \* process_story: its local variables
  cache_file,     \* disk: stories_cache.json
  audio_dir,      \* disk: audio_config.audio_dir, file name -> content
  transcript_dir, \* disk: transcript_dir, nid -> text of <nid>.txt
  output_csv,     \* disk: the output table, a sequence of rows
  log,            \* the log lines of this run, <<level-or-kind, idx>>
  ops,            \* history: the external calls of this run, <<call, idx>>
  fetch_outcome,  \* history: how fetch_stories ended in this run
  at_start,       \* history: the disk when this run started
  first_fetch,    \* history: the first run whose fetch_stories returned, and what
  clean           \* history: no run so far aborted or had an item fail

vars ==
  <<run, pc, idx, stories, loc, cache_file, audio_dir, transcript_dir,
    output_csv, log, ops, fetch_outcome, at_start, first_fetch, clean>>

disk == <<cache_file, audio_dir, transcript_dir, output_csv>>

NoFile == [exists |-> FALSE, complete |-> FALSE, content |-> <<>>]

\* json.dump(data, f, indent=2) into a fresh file, and json.load of it
JsonDump(data) == [exists |-> TRUE, complete |-> TRUE, content |-> data]
JsonLoad(file) == file.content

\* a cache file whose write stopped half way
PartialDump == [exists |-> TRUE, complete |-> FALSE, content |-> <<>>]

NoLoc ==
  [title |-> <<>>, url |-> <<>>, filename |-> <<>>, audio_path |-> <<>>,
   text |-> NoText, analysis |-> NoAnalysis]

EmptyDir == <<>>

Init ==
  /\ run = 0
  /\ pc = "idle"
  /\ idx = 0
  /\ stories = <<>>
  /\ loc = NoLoc
  /\ cache_file = NoFile
  /\ audio_dir = EmptyDir
  /\ transcript_dir = EmptyDir
  /\ output_csv = <<>>
  /\ log = {}
  /\ ops = {}
  /\ fetch_outcome = "none"
  /\ at_start = [cache_file |-> NoFile, audio_dir |-> EmptyDir,
                 transcript_dir |-> EmptyDir, output_csv |-> <<>>]
  /\ first_fetch = [run |-> 0, stories |-> <<>>]
  /\ clean = TRUE

\* ----------------------------------------------------------------- actions

\* `StoryProcessor().run()` is started: a new process, the disk as it was left.
StartRun ==
  /\ pc \in {"idle", "done", "aborted"}
  /\ run < MaxRuns
  /\ run' = run + 1
  /\ pc' = "fetch"
  /\ idx' = 0
  /\ stories' = <<>>
  /\ loc' = NoLoc
  /\ log' = {}
  /\ ops' = {}
  /\ fetch_outcome' = "none"
  /\ at_start' = [cache_file |-> cache_file, audio_dir |-> audio_dir,
                  transcript_dir |-> transcript_dir, output_csv |-> output_csv]
  /\ UNCHANGED <<disk, first_fetch, clean>>

\* fetch_stories without its cache check: the endpoint is asked every run
CatalogCached_never == FALSE

\* fetch_stories: `if self.config.cache_file.exists()`
CatalogCached == cache_file.exists

\* fetch_stories returns data to run(), which starts its loop.
FetchReturns(data, outcome) ==
  /\ stories' = data
  /\ idx' = 1
  /\ pc' = "loop"
  /\ fetch_outcome' = outcome
  /\ first_fetch' = IF first_fetch.run = 0
                    THEN [run |-> run, stories |-> data]
                    ELSE first_fetch
  /\ UNCHANGED clean

\* a fetch_stories that swallows its error and hands run() an empty list
FetchRaises_swallowed(outcome) ==
  /\ pc' = "loop"
  /\ idx' = 1
  /\ stories' = <<>>
  /\ fetch_outcome' = outcome
  /\ clean' = FALSE
  /\ UNCHANGED first_fetch

\* fetch_stories raises; run() does not catch it and the program ends.
FetchRaises(outcome) ==
  /\ pc' = "aborted"
  /\ fetch_outcome' = outcome
  /\ clean' = FALSE
  /\ UNCHANGED <<stories, idx, first_fetch>>

\* fetch_stories, called by run()
FetchStories ==
  /\ pc = "fetch"
  /\ IF CatalogCached
     THEN /\ IF cache_file.complete
             THEN FetchReturns(JsonLoad(cache_file), "cached")
             ELSE FetchRaises("load_error")
          /\ UNCHANGED <<cache_file, ops>>
     ELSE /\ ops' = ops \cup {<<"fetch", 0>>}
          /\ \E outcome \in {"error", "ok", "dump_error"} :
               CASE outcome = "error" ->
                      \* requests.get fails, raise_for_status or resp.json raises
                      /\ FetchRaises("error")
                      /\ UNCHANGED cache_file
                 [] outcome = "dump_error" ->
                      \* the cache file is opened for writing, json.dump fails
                      /\ FetchRaises("dump_error")
                      /\ cache_file' = PartialDump
                 [] outcome = "ok" ->
                      \* resp.json() is whatever the endpoint answers now
                      \E data \in Catalogs :
                        /\ cache_file' = JsonDump(data)
                        /\ FetchReturns(data, "ok")
  /\ UNCHANGED <<run, loc, audio_dir, transcript_dir, output_csv,
                 log, at_start>>

\* run(): the loop is over, "All non-community stories processed."
RunFinish ==
  /\ pc = "loop"
  /\ idx > Len(stories)
  /\ pc' = "done"
  /\ log' = log \cup {<<"all_processed", 0>>}
  /\ UNCHANGED <<run, idx, stories, loc, disk, ops, fetch_outcome,
                 at_start, first_fetch, clean>>

\* run(): a community story is skipped
RunSkip ==
  /\ pc = "loop"
  /\ idx <= Len(stories)
  /\ is_community(stories[idx])
  /\ log' = log \cup {<<"skip_community", idx>>}
  /\ idx' = idx + 1
  /\ UNCHANGED <<run, pc, stories, loc, disk, ops, fetch_outcome,
                 at_start, first_fetch, clean>>

\* run(): self.process_story(s)
RunCall ==
  /\ pc = "loop"
  /\ idx <= Len(stories)
  /\ ~is_community(stories[idx])
  /\ pc' = "process_story"
  /\ ops' = ops \cup {<<"process_story", idx>>}
  /\ UNCHANGED <<run, idx, stories, loc, disk, log, fetch_outcome,
                 at_start, first_fetch, clean>>

\* process_story returns to run(), which moves to the next story
Return ==
  /\ idx' = idx + 1
  /\ pc' = "loop"
  /\ loc' = NoLoc

\* process_story without its try/except: the exception leaves run()
Caught_uncaught ==
  /\ log' = log \cup {<<"exception", idx>>}
  /\ clean' = FALSE
  /\ pc' = "aborted"
  /\ UNCHANGED <<idx, loc>>

\* process_story with a retry: after the log line the same item is taken again
Caught_retry ==
  /\ log' = log \cup {<<"exception", idx>>}
  /\ clean' = FALSE
  /\ pc' = "loop"
  /\ loc' = NoLoc
  /\ idx' = idx

\* process_story: `except Exception: logger.exception(...)`, then it returns
Caught ==
  /\ log' = log \cup {<<"exception", idx>>}
  /\ clean' = FALSE
  /\ Return

\* process_story, lines 107-124: the locals once the audio reference is known
Locals(story) ==
  [NoLoc EXCEPT !.title = TitleOf(story),
                !.url = UrlOf(RelativeAudio(story)),
                !.filename = FilenameOf(story)]

\* process_story without the return after its warning: the item goes on to
\* the download with the bare base url
ProcessStoryNoAudio_goes_on ==
  /\ pc = "process_story"
  /\ RelativeAudio(stories[idx]) = <<>>
  /\ log' = log \cup {<<"no_audio", idx>>}
  /\ loc' = Locals(stories[idx])
  /\ pc' = "download_audio"
  /\ UNCHANGED <<run, idx, stories, disk, ops, fetch_outcome, at_start,
                 first_fetch, clean>>

\* process_story, lines 107-115: `if not relative_audio`, a warning and return
ProcessStoryNoAudio ==
  /\ pc = "process_story"
  /\ RelativeAudio(stories[idx]) = <<>>
  /\ log' = log \cup {<<"no_audio", idx>>}
  /\ Return
  /\ UNCHANGED <<run, stories, disk, ops, fetch_outcome, at_start,
                 first_fetch, clean>>

\* process_story, lines 107-124: title, audio reference, url, file name
ProcessStoryBegin ==
  /\ pc = "process_story"
  /\ RelativeAudio(stories[idx]) # <<>>
  /\ loc' = Locals(stories[idx])
  /\ pc' = "download_audio"
  /\ UNCHANGED <<run, idx, stories, disk, log, ops, fetch_outcome, at_start,
                 first_fetch, clean>>

\* download_audio without its existence check
AudioExists_never(filename) == FALSE

\* download_audio: `if out_path.exists()`
AudioExists(filename) == filename \in DOMAIN audio_dir

\* download_audio(url, filename), called by process_story
DownloadAudio ==
  /\ pc = "download_audio"
  /\ IF AudioExists(loc.filename)
     THEN \* "Audio already exists": the path is returned as it is
          /\ loc' = [loc EXCEPT !.audio_path = loc.filename]
          /\ pc' = "trim_audio"
          /\ UNCHANGED <<idx, audio_dir, log, ops, clean>>
     ELSE /\ ops' = ops \cup {<<"download", idx>>}
          /\ \E outcome \in {"error", "interrupted", "ok"} :
               CASE outcome = "error" ->
                      \* requests.get or raise_for_status raises, before the
                      \* file is opened
                      /\ Caught
                      /\ UNCHANGED audio_dir
                 [] outcome = "interrupted" ->
                      \* the file is open at out_path when iter_content raises
                      /\ audio_dir' =
                           (loc.filename :> [url |-> loc.url,
                                             ms |-> PartialDuration(loc.url),
                                             complete |-> FALSE]) @@ audio_dir
                      /\ Caught
                 [] outcome = "ok" ->
                      /\ audio_dir' =
                           (loc.filename :> [url |-> loc.url,
                                             ms |-> AudioDuration(loc.url),
                                             complete |-> TRUE]) @@ audio_dir
                      /\ loc' = [loc EXCEPT !.audio_path = loc.filename]
                      /\ pc' = "trim_audio"
                      /\ log' = log \cup {<<"downloaded", idx>>}
                      /\ UNCHANGED <<idx, clean>>
  /\ UNCHANGED <<run, stories, cache_file, transcript_dir, output_csv,
                 fetch_outcome, at_start, first_fetch>>

\* the trim with `>=` for `>`: audio exactly as long as the trim becomes empty
TrimmedDuration_ge(ms, seconds) ==
  LET start_ms == seconds * 1000
  IN IF ms >= start_ms THEN ms - start_ms ELSE ms

\* trim_audio: `audio[start_ms:] if len(audio) > start_ms else audio`
TrimmedDuration(ms, seconds) ==
  LET start_ms == seconds * 1000
  IN IF ms > start_ms THEN ms - start_ms ELSE ms

\* trim_audio without its existence check
TrimmedExists_never(trimmed_path) == FALSE

\* trim_audio: `if trimmed_path.exists()`
TrimmedExists(trimmed_path) == trimmed_path \in DOMAIN audio_dir

\* trim_audio(audio_path, seconds), called by process_story
TrimAudio ==
  /\ pc = "trim_audio"
  /\ LET trimmed_path == TrimmedName(loc.audio_path)
         audio == audio_dir[loc.audio_path]
     IN IF TrimmedExists(trimmed_path)
        THEN /\ loc' = [loc EXCEPT !.audio_path = trimmed_path]
             /\ pc' = "transcribe"
             /\ UNCHANGED <<idx, audio_dir, log, ops, clean>>
        ELSE /\ ops' = ops \cup {<<"trim", idx>>}
             /\ \E outcome \in {"error", "ok"} :
                  CASE outcome = "error" ->
                         \* AudioSegment.from_file cannot decode the file
                         /\ Caught
                         /\ UNCHANGED audio_dir
                    [] outcome = "ok" ->
                         /\ audio_dir' =
                              (trimmed_path :>
                                 [url |-> audio.url,
                                  ms |-> TrimmedDuration(audio.ms, trim_seconds),
                                  complete |-> audio.complete]) @@ audio_dir
                         /\ loc' = [loc EXCEPT !.audio_path = trimmed_path]
                         /\ pc' = "transcribe"
                         /\ UNCHANGED <<idx, log, clean>>
  /\ UNCHANGED <<run, stories, cache_file, transcript_dir, output_csv,
                 fetch_outcome, at_start, first_fetch>>

\* transcribe whose failure is logged and then passed over: the later stages
\* run on an empty text
Transcribe_passed_over ==
  /\ pc = "transcribe"
  /\ ops' = ops \cup {<<"transcribe", idx>>}
  /\ \E outcome \in {"error", "ok"} :
       CASE outcome = "error" ->
              /\ log' = log \cup {<<"exception", idx>>}
              /\ clean' = FALSE
              /\ loc' = [loc EXCEPT !.text = NoText]
              /\ pc' = "write_transcript"
              /\ UNCHANGED idx
         [] outcome = "ok" ->
              /\ loc' = [loc EXCEPT
                           !.text = TranscribeText(audio_dir[loc.audio_path])]
              /\ pc' = "write_transcript"
              /\ UNCHANGED <<idx, log, clean>>
  /\ UNCHANGED <<run, stories, disk, fetch_outcome, at_start,
                 first_fetch>>

\* process_story: self.nlp_engine.transcribe(audio_path)["text"]
Transcribe ==
  /\ pc = "transcribe"
  /\ ops' = ops \cup {<<"transcribe", idx>>}
  /\ \E outcome \in {"error", "ok"} :
       CASE outcome = "error" -> Caught
         [] outcome = "ok" ->
              /\ loc' = [loc EXCEPT
                           !.text = TranscribeText(audio_dir[loc.audio_path])]
              /\ pc' = "write_transcript"
              /\ UNCHANGED <<idx, log, clean>>
  /\ UNCHANGED <<run, stories, disk, fetch_outcome, at_start,
                 first_fetch>>

\* process_story with the transcript written after the row instead of before
\* the analysis: at this place nothing is written
WriteTranscript_later ==
  /\ pc = "write_transcript"
  /\ ops' = ops \cup {<<"write_transcript", idx>>}
  /\ pc' = "analyze"
  /\ UNCHANGED <<idx, loc, log, clean, transcript_dir>>
  /\ UNCHANGED <<run, stories, cache_file, audio_dir, output_csv,
                 fetch_outcome, at_start, first_fetch>>

\* process_story: transcript_path.write_text(text) with the path <nid>.txt
WriteTranscript ==
  /\ pc = "write_transcript"
  /\ ops' = ops \cup {<<"write_transcript", idx>>}
  /\ \E outcome \in {"error", "ok"} :
       CASE outcome = "error" ->
              /\ Caught
              /\ UNCHANGED transcript_dir
         [] outcome = "ok" ->
              /\ transcript_dir' = (stories[idx].nid :> loc.text) @@ transcript_dir
              /\ pc' = "analyze"
              /\ UNCHANGED <<idx, loc, log, clean>>
  /\ UNCHANGED <<run, stories, cache_file, audio_dir, output_csv,
                 fetch_outcome, at_start, first_fetch>>

\* process_story: self.nlp_engine.analyze(text)
Analyze ==
  /\ pc = "analyze"
  /\ ops' = ops \cup {<<"analyze", idx>>}
  /\ \E outcome \in {"error", "ok"} :
       CASE outcome = "error" -> Caught
         [] outcome = "ok" ->
              /\ loc' = [loc EXCEPT !.analysis = AnalyzeText(loc.text)]
              /\ pc' = "write_row"
              /\ UNCHANGED <<idx, log, clean>>
  /\ UNCHANGED <<run, stories, disk, fetch_outcome, at_start,
                 first_fetch>>

\* process_story: f"{length}_letter_words" for length in range(3, 10 + 1)
LetterColumns ==
  (3 :> "3_letter_words") @@ (4 :> "4_letter_words") @@ (5 :> "5_letter_words")
  @@ (6 :> "6_letter_words") @@ (7 :> "7_letter_words") @@ (8 :> "8_letter_words")
  @@ (9 :> "9_letter_words") @@ (10 :> "10_letter_words")

\* dict.get(key, default)
Get(d, key, default) == IF key \in DOMAIN d THEN d[key] ELSE default

\* the row without the default of .get(length, 0): a word-length column only
\* for the lengths the histogram holds
AnalysisRow_sparse(story, title, analysis) ==
  [title |-> title,
   nid |-> story.nid,
   duration |-> story.duration,
   word_count |-> analysis.word_count,
   sentence_count |-> analysis.sentence_count,
   avg_words_per_sentence |-> analysis.avg_words_per_sentence,
   noun_count |-> analysis.pos_counts.nouns,
   verb_count |-> analysis.pos_counts.verbs,
   adj_count |-> analysis.pos_counts.adjectives]
  @@ [c \in {LetterColumns[length] :
               length \in (3..10) \cap DOMAIN analysis.word_length_distribution} |->
        LET length == CHOOSE l \in 3..10 : LetterColumns[l] = c
        IN analysis.word_length_distribution[length]]

\* process_story, lines 136-149: the row, a mapping from column name to value
AnalysisRow(story, title, analysis) ==
  [title |-> title,
   nid |-> story.nid,
   duration |-> story.duration,
   word_count |-> analysis.word_count,
   sentence_count |-> analysis.sentence_count,
   avg_words_per_sentence |-> analysis.avg_words_per_sentence,
   noun_count |-> analysis.pos_counts.nouns,
   verb_count |-> analysis.pos_counts.verbs,
   adj_count |-> analysis.pos_counts.adjectives]
  @@ [c \in {LetterColumns[length] : length \in 3..10} |->
        LET length == CHOOSE l \in 3..10 : LetterColumns[l] = c
        IN Get(analysis.word_length_distribution, length, 0)]

\* process_story: self.writer.write_row(analysis_row), then "Processed"
WriteRowStep ==
  /\ pc = "write_row"
  /\ ops' = ops \cup {<<"write_row", idx>>}
  /\ \E outcome \in {"error", "ok"} :
       CASE outcome = "error" ->
              /\ Caught
              /\ UNCHANGED output_csv
         [] outcome = "ok" ->
              /\ output_csv' =
                   WriteRow(output_csv,
                            AnalysisRow(stories[idx], loc.title, loc.analysis))
              /\ log' = log \cup {<<"processed", idx>>}
              /\ Return
              /\ UNCHANGED clean
  /\ UNCHANGED <<run, stories, cache_file, audio_dir, transcript_dir,
                 fetch_outcome, at_start, first_fetch>>

Next ==
  \/ StartRun
  \/ FetchStories
  \/ RunFinish
  \/ RunSkip
  \/ RunCall
  \/ ProcessStoryNoAudio
  \/ ProcessStoryBegin
  \/ DownloadAudio
  \/ TrimAudio
  \/ Transcribe
  \/ WriteTranscript
  \/ Analyze
  \/ WriteRowStep

Spec == Init /\ [][Next]_vars

\* ------------------------------------------------------------ type invariant

TypeOK ==
  /\ stories \in Catalogs
  /\ run \in 0..MaxRuns
  /\ pc \in {"idle", "fetch", "loop", "process_story", "download_audio",
             "trim_audio", "transcribe", "write_transcript", "analyze",
             "write_row", "done", "aborted"}
  /\ idx \in 0..(MaxItems + 1)
  /\ Len(output_csv) <= MaxRuns * MaxItems

\* ------------------------------------------------------------------ claims

\* the item keys that have a row in an output table
RowKeys(table) == {table[i].nid : i \in 1..Len(table)}

\* the calls that make up an item's pipeline
PipelineCalls == {"download", "trim", "transcribe", "analyze"}

\* some pipeline stage has run for the story at position i in this run
Executed(i) == \E c \in PipelineCalls : <<c, i>> \in ops

\* C1: in a run started with a row for key K in the output table, no pipeline
\* stage (download, trim, transcribe, analyze) is executed for an item of key K.
C1_Resumability ==
  \A i \in 1..Len(stories) :
    stories[i].nid \in RowKeys(at_start.output_csv) => ~Executed(i)

\* what isolation means in a single state
C2_Isolation ==
  /\ pc = "aborted" =>
       /\ fetch_outcome \in {"error", "dump_error", "load_error"}
       /\ log = {}
       /\ ops \subseteq {<<"fetch", 0>>}
  /\ \A i \in 1..Len(stories) :
       /\ (i < idx /\ ~is_community(stories[i])) => <<"process_story", i>> \in ops
       /\ <<"exception", i>> \in log => i < idx
  /\ pc = "done" => idx = Len(stories) + 1

\* run() is inside its loop: fetch_stories has returned, the end is not reached
StageOrder ==
  <<"loop", "process_story", "download_audio", "trim_audio", "transcribe",
    "write_transcript", "analyze", "write_row", "done">>
InLoop == \E k \in 1..(Len(StageOrder) - 1) : pc = StageOrder[k]

\* how far the run has come: the item, then the stage within the item
Rank ==
  IF \E k \in 1..Len(StageOrder) : pc = StageOrder[k]
  THEN idx * Len(StageOrder) + (CHOOSE k \in 1..Len(StageOrder) : pc = StageOrder[k])
  ELSE 0

\* a step taken inside the loop brings the run nearer to its end and does not
\* leave the run otherwise than by reaching the end
C2_Progress == InLoop => (Rank' > Rank /\ (InLoop' \/ pc' = "done"))

\* C2: a per-item failure is caught and logged and never ends the run: the run
\* is only ever aborted by fetch_stories, before any item; every non-community
\* story the loop has passed was handed to process_story, whatever failed
\* before it; and once fetch_stories has returned the run can always take a
\* step, each step brings it nearer to its end, and it ends only in "done".
C2_FailureIsolation ==
  /\ [](C2_Isolation /\ (InLoop => ENABLED Next))
  /\ [][C2_Progress]_vars

\* once fetch_stories has returned, the run reaches its end (under FairSpec)
C2_ReachesEnd == (pc = "loop") ~> (pc = "done")

\* C2 witness: the run has ended although an item before the last one failed
\* and the item after it was processed.
C2_Witness ==
  /\ pc = "done"
  /\ \E i, j \in 1..Len(stories) :
       i < j /\ <<"exception", i>> \in log /\ <<"processed", j>> \in log

\* C3: the output table holds at most one row per item key.
C3_UniqueKeys ==
  \A i, j \in 1..Len(output_csv) :
    i # j => output_csv[i].nid # output_csv[j].nid

\* C4: a run that follows a complete run without failures over the same
\* catalog appends no row: the output table stays what it was at its start.
C4_Idempotent ==
  (run >= 2 /\ clean) => output_csv = at_start.output_csv

\* Python's str(flag), stripped, is "1": said without the code's strip, as a
\* single "1" with nothing but whitespace around it
StrippedFlagIsOne(s) ==
  LET f == PyStr(s.field_is_it_by_community)
  IN \E i \in 1..Len(f) :
       f[i] = "1" /\ \A j \in 1..Len(f) : j # i => f[j] \in Whitespace

\* C5 as stated: at the end of a run an item whose flag string-equals "1" has
\* no row, and every other item has one.
C5_Original ==
  pc = "done" =>
    \A i \in 1..Len(stories) :
      IF PyStr(stories[i].field_is_it_by_community) = <<"1">>
      THEN stories[i].nid \notin RowKeys(output_csv)
      ELSE stories[i].nid \in RowKeys(output_csv)

\* C5 amended: an item whose flag, as a string with surrounding whitespace
\* removed, equals "1" is never handed to process_story and never gets a row;
\* every other item the loop has passed was handed to process_story, and has
\* a row once it was processed with an audio reference and no failing stage.
C5_Filter ==
  \A i \in 1..Len(stories) :
    LET s == stories[i]
    IN /\ StrippedFlagIsOne(s) =>
            /\ \A op \in ops : op[2] # i
            /\ <<"processed", i>> \notin log
            /\ s.nid \notin RowKeys(output_csv)
       /\ (~StrippedFlagIsOne(s) /\ i < idx) =>
            /\ <<"process_story", i>> \in ops
            /\ (RelativeAudio(s) # <<>> /\ <<"exception", i>> \notin log)
                 => s.nid \in RowKeys(output_csv)

\* C5 witness: a finished run that skipped an item whose flag is not exactly
\* "1" but strips to it, and gave another item its row.
C5_Witness ==
  /\ pc = "done"
  /\ \E i, j \in 1..Len(stories) :
       /\ StrippedFlagIsOne(stories[i])
       /\ PyStr(stories[i].field_is_it_by_community) # <<"1">>
       /\ <<"skip_community", i>> \in log
       /\ <<"processed", j>> \in log

\* C6: a file at a final audio path is a completely downloaded artifact.
C6_NoPartialAudio ==
  \A name \in DOMAIN audio_dir : audio_dir[name].complete

\* C7: the transcription engine is invoked for an item only when no transcript
\* record exists for its key: when transcribe has just returned, there is none.
C7_TranscriptCache ==
  pc = "write_transcript" => stories[idx].nid \notin DOMAIN transcript_dir

\* one step of download_audio, as C8 describes it
C8_Step ==
  pc = "download_audio" =>
    IF loc.filename \in DOMAIN audio_dir
    THEN /\ ops' = ops
         /\ audio_dir' = audio_dir
         /\ pc' = "trim_audio"
         /\ loc'.audio_path = loc.filename
    ELSE <<"download", idx>> \in ops'

\* C8: when a file exists at the target path, download_audio returns that path
\* with no network request and the audio directory untouched; a network
\* request is issued only when no file exists there.
C8_CacheHit == [][C8_Step]_vars

\* C8 witness: download_audio has returned a path this run did not download.
C8_Witness ==
  /\ pc = "trim_audio"
  /\ <<"download", idx>> \notin ops
  /\ loc.audio_path \in DOMAIN audio_dir

\* C9: when the catalog request fails, the run is over before any item: no
\* download, trim, transcription or append has happened, nothing on disk has
\* changed and there is no catalog cache file.
C9_FetchFatal ==
  fetch_outcome = "error" =>
    /\ pc = "aborted"
    /\ ops = {<<"fetch", 0>>}
    /\ log = {}
    /\ idx = 0
    /\ ~cache_file.exists
    /\ audio_dir = at_start.audio_dir
    /\ transcript_dir = at_start.transcript_dir
    /\ output_csv = at_start.output_csv

\* C9 witness: a run has aborted on a failed catalog request.
C9_Witness == pc = "aborted" /\ fetch_outcome = "error" /\ run >= 1

\* C10: in every run after the first one whose fetch_stories returned, there is
\* no catalog request, the cache file is the one that run wrote, and
\* fetch_stories returns the items that run returned.
C10_CatalogCache ==
  (first_fetch.run > 0 /\ run > first_fetch.run) =>
    /\ <<"fetch", 0>> \notin ops
    /\ cache_file = JsonDump(first_fetch.stories)
    /\ fetch_outcome \in {"none", "cached"}
    /\ fetch_outcome = "cached" => stories = first_fetch.stories
    /\ pc # "aborted"

\* C10 witness: a later run got a non-empty catalog from the cache.
C10_Witness ==
  /\ run > first_fetch.run
  /\ first_fetch.run > 0
  /\ fetch_outcome = "cached"
  /\ stories # <<>>

\* the running program always takes its next step
FairSpec == Spec /\ WF_vars(Next)

\* one step of trim_audio, as C11 describes it
C11_Step ==
  pc = "trim_audio" =>
    IF TrimmedName(loc.audio_path) \in DOMAIN audio_dir
    THEN /\ ops' = ops
         /\ audio_dir' = audio_dir
         /\ pc' = "transcribe"
         /\ loc'.audio_path = TrimmedName(loc.audio_path)
    ELSE <<"trim", idx>> \in ops'

\* a file of the audio directory, once there, stays and keeps its content
C11_FilesKept ==
  \A name \in DOMAIN audio_dir :
    name \in DOMAIN audio_dir' /\ audio_dir'[name] = audio_dir[name]

\* C11: once the "_trimmed" path exists, trim_audio returns it without
\* decoding or exporting, in this run and every later one; the audio is decoded
\* only when the path does not exist, and a file written is never written
\* again, so each artifact is trimmed at most once.
C11_TrimOnce == [][C11_Step /\ C11_FilesKept]_vars

\* C11 witness: in a later run trim_audio has returned a trimmed file that an
\* earlier run exported, without decoding.
C11_Witness ==
  /\ pc = "transcribe"
  /\ <<"trim", idx>> \notin ops
  /\ loc.audio_path \in DOMAIN at_start.audio_dir

\* durations (ms) and trim lengths (s) around the boundary d = 1000 * t
DurationSamples ==
  {0, 1, 999, 1000, 1001, 1000 * trim_seconds - 1, 1000 * trim_seconds,
   1000 * trim_seconds + 1, 2000 * trim_seconds}

TrimSamples == {0, 1, trim_seconds, trim_seconds + 1}

\* C12: trimming audio of d ms by t seconds gives d - 1000 * t ms when
\* d > 1000 * t and d ms when d <= 1000 * t, never a negative length and never
\* empty audio for a non-empty source; every trimmed file of the audio
\* directory has this length for its source and the configured trim_seconds.
C12_NoOpTrim ==
  /\ \A d \in DurationSamples, t \in TrimSamples :
       LET r == TrimmedDuration(d, t)
       IN /\ d > 1000 * t => r = d - 1000 * t
          /\ d <= 1000 * t => r = d
          /\ r >= 0
          /\ d > 0 => r > 0
  /\ \A name \in DOMAIN audio_dir :
       TrimmedName(name) \in DOMAIN audio_dir =>
         LET d == audio_dir[name].ms
             r == audio_dir[TrimmedName(name)].ms
         IN /\ d > 1000 * trim_seconds => r = d - 1000 * trim_seconds
            /\ d <= 1000 * trim_seconds => r = d
            /\ r >= 0
            /\ d > 0 => r > 0

\* C12 witness: the directory holds the trimmed file of a source exactly as
\* long as the trim, and the trimmed file is as long as the source.
C12_Witness ==
  \E name \in DOMAIN audio_dir :
    /\ TrimmedName(name) \in DOMAIN audio_dir
    /\ audio_dir[name].ms = 1000 * trim_seconds
    /\ audio_dir[TrimmedName(name)].ms = 1000 * trim_seconds
\* the stages of process_story in the order of its statements: the position
\* of the program and the call made there
StageCalls ==
  <<[at |-> "download_audio", call |-> "download"],
    [at |-> "trim_audio", call |-> "trim"],
    [at |-> "transcribe", call |-> "transcribe"],
    [at |-> "write_transcript", call |-> "write_transcript"],
    [at |-> "analyze", call |-> "analyze"],
    [at |-> "write_row", call |-> "write_row"]>>

\* the program has not yet made, for the current item, the call of the stage
\* it stands at nor that of any later stage; an item whose failure was logged
\* is behind the loop
C13_NotYet ==
  /\ \A k \in 1..Len(StageCalls) :
       pc = StageCalls[k].at =>
         \A j \in k..Len(StageCalls) : <<StageCalls[j].call, idx>> \notin ops
  /\ pc \in {"loop", "process_story"} =>
       \A j \in 1..Len(StageCalls) : <<StageCalls[j].call, idx>> \notin ops
  /\ \A i \in 1..Len(stories) : <<"exception", i>> \in log => i < idx

\* a step makes at most one stage call, the one of the stage the program
\* stands at, for the current item and only while no failure of it is logged;
\* the step that logs a failure leaves the item
C13_Step ==
  /\ \A o \in ops' \ ops :
       \A k \in 1..Len(StageCalls) :
         o[1] = StageCalls[k].call =>
           /\ pc = StageCalls[k].at
           /\ o[2] = idx
           /\ <<"exception", idx>> \notin log
           /\ ops' = ops \cup {o}
  /\ (<<"exception", idx>> \in log' /\ <<"exception", idx>> \notin log) =>
       (idx' = idx + 1 /\ pc' = "loop")

\* C13: within a run every stage of an item (download, trim, transcribe,
\* transcript write, analyze, append) is called at most once, and once a stage
\* of an item has failed no later stage of that item is called in that run.
C13_NoRetries == []C13_NotYet /\ [][C13_Step]_vars

\* C13 witness: the run has ended; the transcription of an item failed after
\* its download and trim ran, and no later stage of that item was called.
C13_Witness ==
  /\ pc = "done"
  /\ \E i \in 1..Len(stories) :
       /\ <<"exception", i>> \in log
       /\ {<<"download", i>>, <<"trim", i>>, <<"transcribe", i>>} \subseteq ops
       /\ \A c \in {"write_transcript", "analyze", "write_row"} :
            <<c, i>> \notin ops

\* C14: a failed item is taken up again by the next run at the stage that
\* failed, and only stages that completed successfully are served from cache:
\* when download_audio has returned, without downloading, a file that an
\* earlier run left, that file is a completely downloaded one.
C14_RetryAtFailedStage ==
  ( /\ pc = "trim_audio"
    /\ <<"download", idx>> \notin ops
    /\ loc.audio_path \in DOMAIN at_start.audio_dir ) =>
    audio_dir[loc.audio_path].complete

\* the items for which this run has logged l
Logged(l) == {i \in 1..Len(stories) : <<l, i>> \in log}

\* the rows this run has appended are those of its processed items: the table
\* the run started with, then one row per processed item in the order of the
\* catalog; a processed item had no failure, its trimmed audio is on disk, and
\* its transcription, transcript write, analysis and append were all called
C15_Rows ==
  /\ Len(output_csv) = Len(at_start.output_csv) + Cardinality(Logged("processed"))
  /\ SubSeq(output_csv, 1, Len(at_start.output_csv)) = at_start.output_csv
  /\ Logged("processed") \cap Logged("exception") = {}
  /\ \A i \in Logged("processed") :
       /\ TrimmedName(FilenameOf(stories[i])) \in DOMAIN audio_dir
       /\ \A c \in {"transcribe", "write_transcript", "analyze", "write_row"} :
            <<c, i>> \in ops
       /\ output_csv[Len(at_start.output_csv)
                     + Cardinality({j \in Logged("processed") : j <= i})].nid
            = stories[i].nid

\* the table changes only by the append of process_story for the current
\* item, after its other stages; the step in which an item fails, and every
\* step of an item before its append, leaves the table as it is
C15_Step ==
  /\ output_csv' # output_csv =>
       /\ pc = "write_row"
       /\ <<"analyze", idx>> \in ops
       /\ <<"exception", idx>> \notin log'
       /\ <<"processed", idx>> \in log'
       /\ \E row \in {AnalysisRow(stories[idx], loc.title, loc.analysis)} :
            output_csv' = Append(output_csv, row)
  /\ <<"exception", idx>> \in log' => output_csv' = output_csv

\* C15: a row is appended for an item in a run only if no stage of that item
\* failed in that run, after its download and trim returned a file and its
\* transcription and analysis returned; an item that fails at any stage
\* contributes no row and leaves the output table unchanged.
C15_RowOnlyOnSuccess == []C15_Rows /\ [][C15_Step]_vars

\* C15 witness: the run has ended with one item failed in analyze and another
\* processed, and the table has grown by exactly one row.
C15_Witness ==
  /\ pc = "done"
  /\ \E i, j \in 1..Len(stories) :
       /\ <<"exception", i>> \in log
       /\ <<"analyze", i>> \in ops
       /\ <<"write_row", i>> \notin ops
       /\ <<"processed", j>> \in log
  /\ Len(output_csv) = Len(at_start.output_csv) + 1

\* the column set of the output table, as C16 lists it
C16_Columns ==
  {"title", "nid", "duration", "word_count", "sentence_count",
   "avg_words_per_sentence", "noun_count", "verb_count", "adj_count",
   "3_letter_words", "4_letter_words", "5_letter_words", "6_letter_words",
   "7_letter_words", "8_letter_words", "9_letter_words", "10_letter_words"}

\* the word-length columns of C16, by length
C16_LengthColumn ==
  [length \in 3..10 |->
     CASE length = 3 -> "3_letter_words" [] length = 4 -> "4_letter_words"
       [] length = 5 -> "5_letter_words" [] length = 6 -> "6_letter_words"
       [] length = 7 -> "7_letter_words" [] length = 8 -> "8_letter_words"
       [] length = 9 -> "9_letter_words" [] length = 10 -> "10_letter_words"]

\* every row of the table has exactly the columns of C16
C16_SameColumns ==
  \A k \in 1..Len(output_csv) : DOMAIN output_csv[k] = C16_Columns

\* the row a step appends holds, in each word-length column, the count the
\* histogram of the analysis has for that length, and 0 when it has none
C16_Step ==
  Len(output_csv') > Len(output_csv) =>
    LET row == output_csv'[Len(output_csv')]
        histogram == loc.analysis.word_length_distribution
    IN \A length \in 3..10 :
         row[C16_LengthColumn[length]] =
           IF length \in DOMAIN histogram THEN histogram[length] ELSE 0

\* C16: every row of the output table has the same column set (title, nid,
\* duration, word_count, sentence_count, avg_words_per_sentence, noun_count,
\* verb_count, adj_count and the eight word-length columns for the lengths
\* 3 to 10), and a word-length column whose length is absent from the
\* histogram of the analysis holds 0.
C16_StableColumns == []C16_SameColumns /\ [][C16_Step]_vars

\* C16 witness: the table holds two rows from different histograms, one with
\* no 3-letter words (column 0) and one with some, both with column 9 at 0.
C16_Witness ==
  \E k, l \in 1..Len(output_csv) :
    /\ output_csv[k]["3_letter_words"] = 0
    /\ output_csv[k]["4_letter_words"] > 0
    /\ output_csv[l]["3_letter_words"] > 0
    /\ output_csv[l]["4_letter_words"] = 0
    /\ output_csv[k]["9_letter_words"] = 0
    /\ output_csv[l]["9_letter_words"] = 0

\* the url process_story builds for the story at position i
C17_Url(i) == UrlOf(RelativeAudio(stories[i]))

\* the stories at positions i < j are distinct items with audio whose titles
\* sanitize to the same name; the first was downloaded in this run, and
\* download_audio has just returned for the second
C17_SecondAfterFirst(i, j) ==
  /\ i < j
  /\ j = idx
  /\ pc = "trim_audio"
  /\ stories[i].nid # stories[j].nid
  /\ sanitize_filename(TitleOf(stories[i])) = sanitize_filename(TitleOf(stories[j]))
  /\ <<"downloaded", i>> \in log

\* the second item was not downloaded: the path download_audio returned holds
\* the audio of the first
C17_Reused(i, j) ==
  /\ <<"download", j>> \notin ops
  /\ audio_dir[loc.audio_path].url = C17_Url(i)

\* C17 as stated: for two distinct items whose titles sanitize to the same
\* name, the second resolves to the artifact downloaded for the first.
C17_Original ==
  \A i, j \in 1..Len(stories) : C17_SecondAfterFirst(i, j) => C17_Reused(i, j)

\* C17: for two distinct items whose titles sanitize to the same name and
\* whose audio urls give the same extension, the second resolves to the
\* artifact downloaded for the first without a download of its own, and the
\* file handed to the transcription is made from the audio of the first.
C17_Collision ==
  \A i, j \in 1..Len(stories) :
    /\ ( /\ C17_SecondAfterFirst(i, j)
         /\ ExtOf(C17_Url(i)) = ExtOf(C17_Url(j)) ) => C17_Reused(i, j)
    /\ ( /\ i < j /\ j = idx /\ pc = "write_transcript"
         /\ stories[i].nid # stories[j].nid
         /\ sanitize_filename(TitleOf(stories[i]))
              = sanitize_filename(TitleOf(stories[j]))
         /\ ExtOf(C17_Url(i)) = ExtOf(C17_Url(j))
         /\ <<"downloaded", i>> \in log ) =>
           /\ <<"download", j>> \notin ops
           /\ audio_dir[loc.audio_path].url = C17_Url(i)

\* C17 witness: the second of two colliding items with different audio urls is
\* about to be transcribed from the trimmed audio of the first.
C17_Witness ==
  \E i \in 1..Len(stories) :
    /\ i < idx
    /\ pc = "transcribe"
    /\ stories[i].nid # stories[idx].nid
    /\ FilenameOf(stories[i]) = FilenameOf(stories[idx])
    /\ <<"downloaded", i>> \in log
    /\ <<"download", idx>> \notin ops
    /\ C17_Url(i) # C17_Url(idx)
    /\ audio_dir[loc.audio_path].url = C17_Url(i)

\* C18: for every row of the output table there is a transcript record under
\* the row's key, the transcript being written before the analysis and the
\* append; in particular when the program stands at the analysis or at the
\* append of an item, the item's transcript record is on disk.
C18_RowHasTranscript ==
  /\ \A k \in 1..Len(output_csv) : output_csv[k].nid \in DOMAIN transcript_dir
  /\ pc \in {"analyze", "write_row"} => stories[idx].nid \in DOMAIN transcript_dir

\* C18 witness: the converse fails.  The run has ended, an item failed in
\* analyze, its transcript record is on disk and the table has no row of its
\* key, while another item has both.
C18_Witness ==
  /\ pc = "done"
  /\ \E i \in 1..Len(stories) :
       /\ <<"analyze", i>> \in ops
       /\ <<"exception", i>> \in log
       /\ stories[i].nid \in DOMAIN transcript_dir
       /\ stories[i].nid \notin RowKeys(output_csv)
  /\ \E k \in 1..Len(output_csv) : output_csv[k].nid \in DOMAIN transcript_dir

\* the story has none of the audio reference fields set to a non-empty value
C19_NoAudio(story) ==
  story.audio_story_url = <<>> /\ story.audio = <<>> /\ story.audio_url = <<>>

\* no stage has been called and no row logged for any item without audio
\* reference, and each one process_story has returned from has its warning
C19_NothingDone ==
  \A i \in 1..Len(stories) :
    C19_NoAudio(stories[i]) =>
      /\ \A k \in 1..Len(StageCalls) : <<StageCalls[k].call, i>> \notin ops
      /\ <<"processed", i>> \notin log
      /\ <<"exception", i>> \notin log
      /\ (i < idx /\ <<"process_story", i>> \in ops) => <<"no_audio", i>> \in log

\* every step taken for an item without audio reference leaves the disk as it
\* is and makes no stage call; process_story logs the warning and returns
C19_Step ==
  ( /\ pc \in {"loop", "process_story"}
    /\ idx \in 1..Len(stories)
    /\ C19_NoAudio(stories[idx]) ) =>
      /\ disk' = disk
      /\ \A k \in 1..Len(StageCalls) : <<StageCalls[k].call, idx>> \notin ops'
      /\ pc = "process_story" =>
           /\ log' = log \cup {<<"no_audio", idx>>}
           /\ pc' = "loop"
           /\ idx' = idx + 1

\* C19: an item with none of audio_story_url, audio, audio_url set to a
\* non-empty value is skipped with a warning in every run: no download, trim,
\* transcription, transcript record or row is made for it, and the audio
\* directory, the transcripts and the output table are left unchanged.
C19_NoAudioSkipped == []C19_NothingDone /\ [][C19_Step]_vars

\* C19 witness: in a second run process_story has returned from an item
\* without audio reference, with the warning and the disk as the run found it.
C19_Witness ==
  /\ run = 2
  /\ pc = "loop"
  /\ idx = 2
  /\ C19_NoAudio(stories[1])
  /\ <<"process_story", 1>> \in ops
  /\ <<"no_audio", 1>> \in log
  /\ <<audio_dir, transcript_dir, output_csv>>
       = <<at_start.audio_dir, at_start.transcript_dir, at_start.output_csv>>

\* process_story has not been called and no stage has run for any excluded
\* item; each one the loop has passed has its skip logged
C20_NeverProcessed ==
  \A i \in 1..Len(stories) :
    StrippedFlagIsOne(stories[i]) =>
      /\ \A o \in ops : o[2] # i
      /\ \A l \in {"processed", "exception", "no_audio", "downloaded"} :
           <<l, i>> \notin log
      /\ i < idx => <<"skip_community", i>> \in log
      /\ ~(idx = i /\ pc # "loop")

\* the step run() takes for an excluded item changes neither the disk nor the
\* calls made: it logs the skip and moves to the next story
C20_Step ==
  ( /\ pc = "loop"
    /\ idx \in 1..Len(stories)
    /\ StrippedFlagIsOne(stories[idx]) ) =>
      /\ disk' = disk
      /\ ops' = ops
      /\ log' = log \cup {<<"skip_community", idx>>}
      /\ pc' = "loop"
      /\ idx' = idx + 1

\* C20: an excluded item (community flag "1") leaves the audio directory with
\* its trimmed files, the transcripts and the output table unchanged: run()
\* never calls process_story for it, so nothing is downloaded or transcribed
\* for it.
C20_ExcludedUntouched == []C20_NeverProcessed /\ [][C20_Step]_vars

\* C20 witness: the run has ended; it skipped an excluded item that has an
\* audio reference and follows a processed item, and the disk holds nothing
\* under the excluded item's key or file name.
C20_Witness ==
  /\ pc = "done"
  /\ \E i, j \in 1..Len(stories) :
       /\ j < i
       /\ <<"processed", j>> \in log
       /\ stories[i].field_is_it_by_community = FlagStr(<<"1">>)
       /\ <<"skip_community", i>> \in log
       /\ RelativeAudio(stories[i]) # <<>>
       /\ FilenameOf(stories[i]) \notin DOMAIN audio_dir
       /\ stories[i].nid \notin DOMAIN transcript_dir
       /\ stories[i].nid \notin RowKeys(output_csv)
====
